---- MODULE Spec2Model ----
(***************************************************************************)
(* seneca-promisified: a promise adapter around a callback-based seneca    *)
(* instance (the "delegate").                                              *)
(*                                                                         *)
(*   Spec        SenecaPromisified (packages/seneca-promisified-core):     *)
(*               act, prior, pin, close, ready, add, use and the handler   *)
(*               and plugin wrappers the delegate calls back into.         *)
(*   SpecEntity  SenecaEntityWrapper: save$, load$, list$, remove$ and the *)
(*               reserved accessors.                                       *)
(*                                                                         *)
(* JavaScript values are modelled as strings: "null", "undefined", error   *)
(* objects "E1"/"E2", plain result values "V1"/"V2", thenables "T1".       *)
(* The delegate follows the continuation convention done(err, result)      *)
(* with err either absent (null or undefined) or an error object.          *)
(***************************************************************************)
EXTENDS Integers, Sequences, FiniteSets, TLC

VARIABLES
    ctxs,       \* wrapped contexts constructed so far (SenecaPromisified objects)
    calls,      \* promise-returning calls: the delegate call issued and the promise
    addCalls,   \* argument lists the delegate's add received (one registry)
    invs,       \* invocations of a wrappedHandler by the delegate
    useCalls,   \* calls of use and what the delegate's use received
    loads,      \* calls of a user plugin function
    ent,        \* the delegate record (entity): field name -> value
    wrapper,    \* the SenecaEntityWrapper the caller holds
    ecall,      \* the last save$/load$/list$/remove$ call and its promise
    acc         \* the last reserved accessor call

vars == <<ctxs, calls, addCalls, invs, useCalls, loads,
          ent, wrapper, ecall, acc>>

ctxVars == <<ctxs, calls, addCalls, invs, useCalls, loads>>
entVars == <<ent, wrapper, ecall, acc>>

----------------------------------------------------------------------------
(* Bounds *)

MaxOps == 2     \* calls + handler invocations + use calls + plugin loads
MaxCb == 2      \* times the delegate may call one continuation

----------------------------------------------------------------------------
(* JavaScript values *)

Null == "null"
Undefined == "undefined"
None == "none"                  \* "nothing thrown" / "no such argument"
Errors == {"E1", "E2"}          \* instances of Error
PlainVals == {"V1", "V2"}       \* plain objects: neither thenable nor Error
Thenables == {"T1"}             \* values with a then function
Natives == {"N0", "N1", "N2"}   \* native seneca contexts of the delegate
Exceptions == {"X1"}            \* what a user handler may throw
Patterns == {"p"}
Configs == {"cfg"}
Handlers == {"h1"}              \* user handler functions
PinSets == {{"load"}, {"load", "save"}}   \* key sets the delegate's pin returns
ActArgs == {<<"p">>, <<"p", "o">>}
\* argument lists (err, res) the delegate passes to a continuation
ContArgs == {<<Null, "V1">>, <<Undefined, "V2">>, <<"E1", "V1">>}
\* what a user handler does: return one of these, or throw an exception
Returns == {"V1", Null, Undefined, "E1", "T1"}
\* arguments of use: a plugin name, a plugin function, plugin options
PluginName == [t |-> "string", v |-> "name"]
PluginFn == [t |-> "function", v |-> "plug"]
PluginOpts == [t |-> "object", v |-> "opts"]
UseArgs == {<<PluginName>>, <<PluginName, PluginOpts>>,
            <<PluginFn>>, <<PluginFn, PluginOpts>>}

\* if(err): the error argument of a continuation is absent or an Error
Truthy(v) == v \notin {Null, Undefined}

\* typeof res.then === 'function'
IsThenable(res) == res \in Thenables

\* res instanceof Error
IsError(res) == res \in Errors

----------------------------------------------------------------------------
(* Promises (any-promise): settled at most once *)

PendingPromise == [st |-> "pending", val |-> Undefined]

resolve(p, v) == IF p.st = "pending" THEN [st |-> "resolved", val |-> v] ELSE p

reject(p, e) == IF p.st = "pending" THEN [st |-> "rejected", val |-> e] ELSE p

\* slip: the bridge rejects with the result argument
completesPromise_rejectsRes(p, err, res) ==
    IF Truthy(err) THEN reject(p, res) ELSE resolve(p, res)

\* completesPromise(resolve, reject)(err, res)
completesPromise(p, err, res) ==
    IF Truthy(err) THEN reject(p, err) ELSE resolve(p, res)

\* (err) => err ? reject(err) : resolve()      (close and ready)
completesVoid(p, err) ==
    IF Truthy(err) THEN reject(p, err) ELSE resolve(p, Undefined)

----------------------------------------------------------------------------
(* SenecaPromisified *)

OpsUsed == Len(calls) + Len(invs) + Len(useCalls) + Len(loads)

\* new SenecaPromisified(seneca)
NewContext(seneca) == [seneca |-> seneca, prior |-> FALSE]

\* a promise-returning method issues the delegate call inside the executor
NewCall(c, m, key, dargs) ==
    [ctx |-> c, on |-> ctxs[c].seneca, m |-> m, key |-> key, dargs |-> dargs,
     n |-> 0, err |-> None, res |-> None, p |-> PendingPromise]

act(c, args) ==
    /\ OpsUsed < MaxOps
    /\ calls' = Append(calls, NewCall(c, "act", None, args))
    /\ UNCHANGED <<ctxs, addCalls, invs, useCalls, loads, entVars>>

prior(c, args) ==
    /\ OpsUsed < MaxOps
    /\ ctxs[c].prior
    /\ calls' = Append(calls, NewCall(c, "prior", None, <<args>>))
    /\ UNCHANGED <<ctxs, addCalls, invs, useCalls, loads, entVars>>

\* pin(pat)[key](args): pin builds one promise-returning function per key of
\* the object the delegate's pin returns (keys); the caller calls the one for key
pin(c, keys, key, args) ==
    /\ OpsUsed < MaxOps
    /\ key \in keys
    /\ calls' = Append(calls, NewCall(c, "pin", key, <<args>>))
    /\ UNCHANGED <<ctxs, addCalls, invs, useCalls, loads, entVars>>

close(c) ==
    /\ OpsUsed < MaxOps
    /\ calls' = Append(calls, NewCall(c, "close", None, <<>>))
    /\ UNCHANGED <<ctxs, addCalls, invs, useCalls, loads, entVars>>

ready(c) ==
    /\ OpsUsed < MaxOps
    /\ calls' = Append(calls, NewCall(c, "ready", None, <<>>))
    /\ UNCHANGED <<ctxs, addCalls, invs, useCalls, loads, entVars>>

\* slip: one continuation settles the promise of every outstanding call
Continuation_shared(i, err, res) ==
    /\ calls[i].n < MaxCb
    /\ calls' = [k \in 1..Len(calls) |->
          [calls[k] EXCEPT
              !.n = IF k = i THEN @ + 1 ELSE @,
              !.err = IF k = i /\ calls[i].n = 0 THEN err ELSE @,
              !.res = IF k = i /\ calls[i].n = 0 THEN res ELSE @,
              !.p = IF calls[k].m \in {"close", "ready"}
                    THEN completesVoid(@, err)
                    ELSE completesPromise(@, err, res)]]
    /\ UNCHANGED <<ctxs, addCalls, invs, useCalls, loads, entVars>>

\* the delegate calls the continuation of call i with (err, res)
Continuation(i, err, res) ==
    /\ calls[i].n < MaxCb
    /\ calls' = [calls EXCEPT ![i] =
          [@ EXCEPT !.n = @ + 1,
                    !.err = IF calls[i].n = 0 THEN err ELSE @,
                    !.res = IF calls[i].n = 0 THEN res ELSE @,
                    !.p = IF calls[i].m \in {"close", "ready"}
                          THEN completesVoid(@, err)
                          ELSE completesPromise(@, err, res)]]
    /\ UNCHANGED <<ctxs, addCalls, invs, useCalls, loads, entVars>>

\* slip: a plain value is passed to done as its first argument
_handleResult_noNull(res) ==
    IF res \in {Null, Undefined}
    THEN [done |-> <<>>, then |-> "none", thrown |-> "TypeError"]
    ELSE IF IsThenable(res)
    THEN [done |-> <<>>, then |-> "pending", thrown |-> None]
    ELSE IF IsError(res)
    THEN [done |-> <<>>, then |-> "none", thrown |-> "ReferenceError"]
    ELSE [done |-> <<<<res, Undefined>>>>, then |-> "none", thrown |-> None]

\* _handleResult(res, done): the calls of done it makes now, whether it
\* subscribed done to a thenable, and what it throws.  `err` on line 96 is
\* not defined anywhere in the module: evaluating it throws a ReferenceError
\* before done is called.  res.then on null or undefined throws a TypeError.
_handleResult(res) ==
    IF res \in {Null, Undefined}
    THEN [done |-> <<>>, then |-> "none", thrown |-> "TypeError"]
    ELSE IF IsThenable(res)
    THEN [done |-> <<>>, then |-> "pending", thrown |-> None]
    ELSE IF IsError(res)
    THEN [done |-> <<>>, then |-> "none", thrown |-> "ReferenceError"]
    ELSE [done |-> <<<<Null, res>>>>, then |-> "none", thrown |-> None]

\* which of the rest arguments of add is the handler
AddHandler(rest) == IF Len(rest) > 1 THEN rest[2] ELSE rest[1]

\* add(pat, handler) or add(pat, config, handler): what the delegate's add gets
add(c, pat, rest) ==
    /\ addCalls' = addCalls \cup
          {[pat |-> pat, nargs |-> Len(rest) + 1,
            cfg |-> IF Len(rest) > 1 THEN rest[1] ELSE None,
            wrapped |-> AddHandler(rest)]}
    /\ UNCHANGED <<ctxs, calls, invs, useCalls, loads, entVars>>

\* slip: the handler context is built around the registering context's
\* delegate instead of the native context of the invocation
wrappedHandler_outerContext(a, native, args, ret, exc) ==
    /\ OpsUsed < MaxOps
    /\ a \in addCalls
    /\ LET wrapped == Len(ctxs) + 1
           hr == _handleResult(ret)
       IN /\ ctxs' = Append(ctxs, [NewContext(ctxs[1].seneca) EXCEPT !.prior = TRUE])
          /\ invs' = Append(invs,
                [handler |-> a.wrapped, native |-> native, ctx |-> wrapped,
                 hthis |-> wrapped, harg1 |-> args, harg2 |-> wrapped,
                 ret |-> IF exc = None THEN ret ELSE None,
                 thrown |-> IF exc = None THEN hr.thrown ELSE exc,
                 then |-> IF exc = None THEN hr.then ELSE "none",
                 tval |-> None,
                 done |-> IF exc = None THEN hr.done ELSE <<>>])
    /\ UNCHANGED <<calls, addCalls, useCalls, loads, entVars>>

\* the delegate calls a registered wrappedHandler(args, done) with its native
\* context as this; the user handler returns ret or throws exc
wrappedHandler(a, native, args, ret, exc) ==
    /\ OpsUsed < MaxOps
    /\ a \in addCalls
    /\ LET wrapped == Len(ctxs) + 1
           hr == _handleResult(ret)
       IN /\ ctxs' = Append(ctxs, [NewContext(native) EXCEPT !.prior = TRUE])
          /\ invs' = Append(invs,
                [handler |-> a.wrapped, native |-> native, ctx |-> wrapped,
                 hthis |-> wrapped, harg1 |-> args, harg2 |-> wrapped,
                 ret |-> IF exc = None THEN ret ELSE None,
                 thrown |-> IF exc = None THEN hr.thrown ELSE exc,
                 then |-> IF exc = None THEN hr.then ELSE "none",
                 tval |-> None,
                 done |-> IF exc = None THEN hr.done ELSE <<>>])
    /\ UNCHANGED <<calls, addCalls, useCalls, loads, entVars>>

\* the thenable a handler returned settles: res.then(done.bind(null, null), done)
ThenableSettles(i, how, v) ==
    /\ invs[i].then = "pending"
    /\ invs' = [invs EXCEPT ![i] =
          [@ EXCEPT !.then = how,
                    !.tval = v,
                    !.done = Append(@, IF how = "fulfilled"
                                       THEN <<Null, v>>
                                       ELSE <<v, Undefined>>)]]
    /\ UNCHANGED <<ctxs, calls, addCalls, useCalls, loads, entVars>>

\* the function use hands to the delegate in place of the plugin
Loader(plugin) == [t |-> "loader", v |-> plugin.v]

\* what the delegate's use receives from use(...args)
UseForwards(args) ==
    IF args[1].t = "string" THEN args
    ELSE IF Len(args) > 1 THEN <<args[1], Loader(args[1])>>
    ELSE <<Loader(args[1])>>

use(c, args) ==
    /\ OpsUsed < MaxOps
    /\ useCalls' = Append(useCalls,
          [impl |-> "core", on |-> ctxs[c].seneca, args |-> args,
           forwarded |-> TRUE, dargs |-> UseForwards(args), thrown |-> None])
    /\ UNCHANGED <<ctxs, calls, addCalls, invs, loads, entVars>>

\* use of the built entry point (src/index.js): `arg` and `loaded` are not
\* defined, so a non-string first argument throws before the delegate is called
SenecaWrapper_use(c, args) ==
    /\ OpsUsed < MaxOps
    /\ useCalls' = Append(useCalls,
          IF args[1].t = "string"
          THEN [impl |-> "build", on |-> ctxs[c].seneca, args |-> args,
                forwarded |-> TRUE, dargs |-> args, thrown |-> None]
          ELSE [impl |-> "build", on |-> ctxs[c].seneca, args |-> args,
                forwarded |-> FALSE, dargs |-> <<>>, thrown |-> "ReferenceError"])
    /\ UNCHANGED <<ctxs, calls, addCalls, invs, loads, entVars>>

\* the delegate initialises the plugin of use call u: it calls the loader it
\* received as initializer with its native context as this
loader(u, native) ==
    /\ OpsUsed < MaxOps
    /\ useCalls[u].forwarded
    /\ useCalls[u].dargs[1].t = "loader"
    /\ LET wrapped == Len(ctxs) + 1
       IN /\ ctxs' = Append(ctxs, NewContext(native))
          /\ loads' = Append(loads,
                [use |-> u, native |-> native, plugin |-> useCalls[u].dargs[1].v,
                 pthis |-> wrapped, parg |-> wrapped])
    /\ UNCHANGED <<calls, addCalls, invs, useCalls, entVars>>

----------------------------------------------------------------------------
(* SenecaEntityWrapper *)

\* field names: data, private (leading '_') and reserved (trailing '$')
FieldNames == {"id", "_p", "x$"}
inheritsSymbolics == {"fields$", "is$", "canon$", "native$", "data$", "clone$"}
ValuesOf(k) == IF k = "id" THEN {1, 2} ELSE {1}

\* k[k.length - 1] === '$'
IsReserved(k) == k \in {"x$", "save$", "load$", "list$", "remove$"} \cup inheritsSymbolics

\* k[0] === '_'
IsPrivate(k) == k \in {"_p", "_entity"}

\* objects as maps from the names of their own enumerable fields to values
FieldMaps ==
    UNION {{f \in [S -> {1, 2}] : \A k \in S : f[k] \in ValuesOf(k)} :
           S \in SUBSET FieldNames}
EmptyMap == <<>>
Restrict(f, S) == [k \in S |-> f[k]]
Assign(f, g, S) == [k \in DOMAIN f \cup S |-> IF k \in S THEN g[k] ELSE f[k]]

\* new SenecaEntityWrapper(entity): _entity is not enumerable
NewWrapper(entity) == [entity |-> entity, fields |-> EmptyMap]

\* for(var k in this): own fields and the accessors assigned to the prototype
_forDataInWrapper(w) ==
    {k \in DOMAIN w.fields \cup inheritsSymbolics : ~IsReserved(k) /\ ~IsPrivate(k)}

\* for(var k in this._entity); iterating null or undefined visits nothing
_forDataInEnt(w, e) ==
    IF w.entity = "R" THEN {k \in DOMAIN e : ~IsReserved(k)} ELSE {}

\* slip: nothing is deleted
_clearEnt_keeps(w, e) == e

\* the record after _clearEnt()
_clearEnt(w, e) == Restrict(e, DOMAIN e \ _forDataInEnt(w, e))

\* slip: nothing is copied
_fromWrapperToEnt_skips(w, e) == e

\* the record after _fromWrapperToEnt()
_fromWrapperToEnt(w, e) == Assign(e, w.fields, _forDataInWrapper(w))

\* the wrapper after _fromEntToWrapper()
_fromEntToWrapper(w, e) ==
    [w EXCEPT !.fields = Assign(@, e, _forDataInEnt(w, e))]

\* slip: the record is synchronised whether or not an argument is given
EntityAtCall_always(w, e, args) == _fromWrapperToEnt(w, _clearEnt(w, e))

\* slip: the record is never synchronised
EntityAtCall_never(w, e, args) == e

\* the record as the delegate operation finds it when _callWithOpt calls it
EntityAtCall(w, e, args) ==
    IF Len(args) > 0 THEN e ELSE _fromWrapperToEnt(w, _clearEnt(w, e))

\* promise values: a wrapper object or a plain value
WrapperVal(w) == [t |-> "wrapper", entity |-> w.entity, fields |-> w.fields, v |-> None]
PlainVal(v) == [t |-> "plain", entity |-> None, fields |-> EmptyMap, v |-> v]
PendingEnt == [st |-> "pending", val |-> PlainVal(Undefined)]

\* mirror: at the call the wrapper held exactly the record's data fields
NoCall == [id |-> 0, prop |-> None, args |-> <<>>, called |-> FALSE, dargs |-> <<>>,
           mirror |-> FALSE, n |-> 0, err |-> None, rec |-> None, p |-> PendingEnt]
NoAcc == [key |-> None, args |-> <<>>, called |-> FALSE, dkey |-> None,
          dargs |-> <<>>, dret |-> None, ret |-> None, thrown |-> None]

\* make(...args): a wrapper around the record the delegate's make returns
make(f) ==
    /\ ent' = f
    /\ wrapper' = NewWrapper("R")
    /\ ecall' = NoCall
    /\ acc' = NoAcc
    /\ UNCHANGED ctxVars

\* the caller assigns or deletes a field of the wrapper
SetField(k, v) ==
    /\ wrapper' = [wrapper EXCEPT !.fields = Assign(@, [x \in {k} |-> v], {k})]
    /\ UNCHANGED <<ent, ecall, acc, ctxVars>>

DeleteField(k) ==
    /\ k \in DOMAIN wrapper.fields
    /\ wrapper' = [wrapper EXCEPT !.fields = Restrict(@, DOMAIN @ \ {k})]
    /\ UNCHANGED <<ent, ecall, acc, ctxVars>>

\* _callWithOpt(opt, prop) with opt = args[1] when given.  On a wrapper around
\* null or undefined this._entity[prop] throws inside the executor, which
\* rejects the promise.
_callWithOpt(args, prop) ==
    /\ wrapper' = wrapper
    /\ acc' = acc
    /\ IF wrapper.entity = "R"
       THEN /\ ent' = EntityAtCall(wrapper, ent, args)
            /\ ecall' = [NoCall EXCEPT !.id = 1 - ecall.id, !.prop = prop,
                                       !.args = args, !.called = TRUE,
                                       !.dargs = args,
                                       !.mirror = (wrapper.fields =
                                          Restrict(ent, _forDataInEnt(wrapper, ent)))]
       ELSE /\ ent' = ent
            /\ ecall' = [NoCall EXCEPT !.id = 1 - ecall.id, !.prop = prop,
                                       !.args = args,
                                       !.p = reject(PendingEnt, PlainVal("TypeError"))]
    /\ UNCHANGED ctxVars

save(args) == _callWithOpt(args, "save$")
load(args) == _callWithOpt(args, "load$")
list(args) == _callWithOpt(args, "list$")
remove(args) == _callWithOpt(args, "remove$")

\* onComplete(err, ent): the delegate calls the continuation of the last call
\* with an error, with the record, or with no record
onComplete(err, rec) ==
    /\ ecall.called
    /\ ecall.n < MaxCb
    /\ ecall' = [ecall EXCEPT
          !.n = @ + 1,
          !.err = IF ecall.n = 0 THEN err ELSE @,
          !.rec = IF ecall.n = 0 THEN rec ELSE @,
          !.p = IF Truthy(err) THEN reject(@, PlainVal(err))
                ELSE resolve(@, WrapperVal(_fromEntToWrapper(NewWrapper(rec), ent)))]
    /\ UNCHANGED <<ent, wrapper, acc, ctxVars>>

\* the caller continues with the wrapper the promise resolved with
Then ==
    /\ ecall.p.st = "resolved"
    /\ ecall.p.val.t = "wrapper"
    /\ wrapper' = [entity |-> ecall.p.val.entity, fields |-> ecall.p.val.fields]
    /\ UNCHANGED <<ent, ecall, acc, ctxVars>>

\* wrapper[key + '$'](...args): the delegate's accessor returns dret
symbolic(key, args, dret) ==
    /\ acc' = IF wrapper.entity = "R"
              THEN [NoAcc EXCEPT !.key = key, !.args = args, !.called = TRUE,
                                 !.dkey = key, !.dargs = args, !.dret = dret,
                                 !.ret = Undefined]
              ELSE [NoAcc EXCEPT !.key = key, !.args = args, !.thrown = "TypeError"]
    /\ UNCHANGED <<ent, wrapper, ecall, ctxVars>>

----------------------------------------------------------------------------

InitCtx ==
    /\ ctxs = <<NewContext("N0")>>
    /\ calls = <<>>
    /\ addCalls = {}
    /\ invs = <<>>
    /\ useCalls = <<>>
    /\ loads = <<>>

\* a wrapper fresh from make around a record the delegate made
InitEnt ==
    /\ ent = EmptyMap
    /\ wrapper = NewWrapper("R")
    /\ ecall = NoCall
    /\ acc = NoAcc

Init == InitCtx /\ InitEnt

Next ==
    \/ \E c \in 1..Len(ctxs), args \in ActArgs : act(c, args)
    \/ \E c \in 1..Len(ctxs) : prior(c, "a")
    \/ \E c \in 1..Len(ctxs), keys \in PinSets, key \in UNION PinSets :
           pin(c, keys, key, "a")
    \/ \E c \in 1..Len(ctxs) : close(c)
    \/ \E c \in 1..Len(ctxs) : ready(c)
    \/ \E i \in 1..Len(calls), a \in ContArgs : Continuation(i, a[1], a[2])
    \/ \E c \in 1..Len(ctxs), pat \in Patterns, h \in Handlers :
           add(c, pat, <<h>>)
    \/ \E c \in 1..Len(ctxs), pat \in Patterns, cfg \in Configs, h \in Handlers :
           add(c, pat, <<cfg, h>>)
    \/ \E a \in addCalls, native \in Natives \ {"N0"}, ret \in Returns :
           wrappedHandler(a, native, "a", ret, None)
    \/ \E a \in addCalls, native \in Natives \ {"N0"}, exc \in Exceptions :
           wrappedHandler(a, native, "a", Undefined, exc)
    \/ \E i \in 1..Len(invs), v \in PlainVals : ThenableSettles(i, "fulfilled", v)
    \/ \E i \in 1..Len(invs), r \in Errors : ThenableSettles(i, "rejected", r)
    \/ \E c \in 1..Len(ctxs), args \in UseArgs : use(c, args)
    \/ \E c \in 1..Len(ctxs), args \in UseArgs : SenecaWrapper_use(c, args)
    \/ \E u \in 1..Len(useCalls), native \in Natives \ {"N0"} : loader(u, native)

Spec == Init /\ [][Next]_vars

EntArgs == {<<>>, <<[id |-> 2]>>}
AccArgs == {<<"a">>}

NextEntity ==
    \/ \E f \in FieldMaps : make(f)
    \/ \E k \in FieldNames, v \in {1, 2} : v \in ValuesOf(k) /\ SetField(k, v)
    \/ \E k \in FieldNames : DeleteField(k)
    \/ \E args \in EntArgs : save(args)
    \/ \E args \in EntArgs : load(args)
    \/ \E args \in EntArgs : list(args)
    \/ \E args \in EntArgs : remove(args)
    \/ \E err \in {Null, Undefined} : onComplete(err, "R")
    \/ \E rec \in {Null, Undefined} : onComplete(Null, rec)
    \/ \E err \in Errors : onComplete(err, Undefined)
    \/ Then
    \/ \E key \in inheritsSymbolics, args \in AccArgs : symbolic(key, args, "V1")

SpecEntity == Init /\ [][NextEntity]_vars

----------------------------------------------------------------------------
(* Properties of SenecaPromisified *)

\* C1: once the delegate has called the continuation of a promise-returning
\* call (act, prior, a function produced by pin, close, ready) with
\* (err, value), the promise is rejected with exactly err when err is an
\* error, and resolved with exactly value (with undefined for close and
\* ready) when err is absent.
C1_ContinuationSettlesPromise ==
    \A i \in 1..Len(calls) :
        calls[i].n > 0 =>
            IF calls[i].err \notin {Null, Undefined}
            THEN calls[i].p = [st |-> "rejected", val |-> calls[i].err]
            ELSE calls[i].p = [st |-> "resolved",
                               val |-> IF calls[i].m \in {"close", "ready"}
                                       THEN Undefined ELSE calls[i].res]

\* an act call rejected with the delegate's error next to a close or ready
\* call resolved with no value
C1_Witness ==
    \E i, j \in 1..Len(calls) :
        /\ calls[i].m = "act" /\ calls[i].err = "E1"
        /\ calls[i].p = [st |-> "rejected", val |-> "E1"]
        /\ calls[j].m \in {"close", "ready"} /\ calls[j].err = Undefined
        /\ calls[j].p = [st |-> "resolved", val |-> Undefined]

\* C2: a handler that returns a plain value (neither thenable nor error) has
\* done called with (null, value); a handler that returns a thenable has done
\* called with (null, v) when the thenable fulfils with v and with the
\* rejection reason as first argument when it rejects.
C2_PlainAndThenableResults ==
    \A i \in 1..Len(invs) :
        /\ invs[i].ret \in PlainVals => invs[i].done = <<<<Null, invs[i].ret>>>>
        /\ invs[i].then = "fulfilled" => invs[i].done = <<<<Null, invs[i].tval>>>>
        /\ invs[i].then = "rejected" =>
               Len(invs[i].done) = 1 /\ invs[i].done[1][1] = invs[i].tval

\* one invocation returned a plain value, another a thenable that rejected
C2_Witness ==
    \E i, j \in 1..Len(invs) :
        /\ invs[i].ret = "V1" /\ invs[i].done = <<<<Null, "V1">>>>
        /\ invs[j].ret = "T1" /\ invs[j].then = "rejected"
        /\ invs[j].done = <<<<"E2", Undefined>>>>

\* C3: a handler that returns an error value err that is not a thenable has
\* done called with (err, undefined).
C3_ErrorReturnSignalsFailure ==
    \A i \in 1..Len(invs) :
        IsError(invs[i].ret) => invs[i].done = <<<<invs[i].ret, Undefined>>>>

\* C4: use with a non-string first argument hands the delegate's use a
\* wrapped initializer in place of the plugin, followed by the optional args,
\* and the initializer calls the plugin once with a fresh wrapped context as
\* argument and this; use with a string forwards its arguments unchanged.
C4_UseWrapsPlugin ==
    /\ \A u \in 1..Len(useCalls) :
          /\ useCalls[u].forwarded
          /\ useCalls[u].dargs =
                IF useCalls[u].args[1].t = "string" THEN useCalls[u].args
                ELSE <<Loader(useCalls[u].args[1])>> \o Tail(useCalls[u].args)
    /\ \A l \in 1..Len(loads) :
          /\ loads[l].pthis = loads[l].parg
          /\ ctxs[loads[l].parg].seneca = loads[l].native

\* C11: every invocation of a registered handler has its own wrapped handler
\* context, constructed for it around the native context of that invocation
\* and shared with no other invocation or plugin load; the user handler is
\* called with (args, thatContext) and thatContext as this; a prior call on
\* that context goes to the prior of the same native context with the same
\* args, and its promise is settled by that call's continuation.
C11_FreshHandlerContext ==
    /\ \A i \in 1..Len(invs) :
          /\ invs[i].ctx \in 2..Len(ctxs)
          /\ ctxs[invs[i].ctx] = [seneca |-> invs[i].native, prior |-> TRUE]
          /\ invs[i].handler \in Handlers
          /\ invs[i].hthis = invs[i].ctx /\ invs[i].harg2 = invs[i].ctx
          /\ invs[i].harg1 = "a"
          /\ \A j \in 1..Len(invs) : j # i => invs[j].ctx # invs[i].ctx
          /\ \A l \in 1..Len(loads) : loads[l].parg # invs[i].ctx
    /\ \A k \in 1..Len(calls) :
          calls[k].m = "prior" =>
             /\ \E i \in 1..Len(invs) :
                    invs[i].ctx = calls[k].ctx /\ calls[k].on = invs[i].native
             /\ calls[k].dargs = <<"a">>
             /\ (calls[k].n = 0) = (calls[k].p.st = "pending")

\* a handler invoked on native context N2 called prior, which the delegate
\* answered on N2
C11_Witness ==
    /\ Len(invs) = 1 /\ invs[1].native = "N2" /\ invs[1].ctx = 2
    /\ invs[1].ret = "T1"
    /\ Len(calls) = 1 /\ calls[1].m = "prior" /\ calls[1].on = "N2"
    /\ calls[1].p = [st |-> "resolved", val |-> "V1"]

\* C12: act issues its delegate call inside the act call, whatever calls are
\* outstanding: the step that adds the call records the delegate call on the
\* context's delegate with the caller's arguments and touches no other call.
\* A promise changes only in a step in which its own continuation is called,
\* and only if it was pending: the first continuation call settles it, later
\* ones change nothing, in whatever order the delegate answers.
C12_ActsAreIndependent ==
    [][/\ Len(calls') >= Len(calls)
       /\ Len(calls') > Len(calls) =>
             /\ Len(calls') = Len(calls) + 1
             /\ \A k \in 1..Len(calls) : calls'[k] = calls[k]
             /\ LET new == calls'[Len(calls')]
                IN /\ new.on = ctxs[new.ctx].seneca
                   /\ new.n = 0 /\ new.p.st = "pending"
                   /\ new.m = "act" => new.dargs \in ActArgs
       /\ \A k \in 1..Len(calls) :
             calls'[k].p # calls[k].p =>
                /\ calls[k].p.st = "pending"
                /\ calls[k].n = 0 /\ calls'[k].n = 1
                /\ \A j \in 1..Len(calls) : j # k => calls'[j] = calls[j]]_vars

\* two act calls: the second was answered twice and keeps its first
\* settlement while the first is still outstanding
C12_Witness ==
    /\ Len(calls) = 2 /\ calls[1].m = "act" /\ calls[2].m = "act"
    /\ calls[1].n = 0 /\ calls[1].p.st = "pending"
    /\ calls[2].n = 2 /\ calls[2].err = "E1"
    /\ calls[2].p = [st |-> "rejected", val |-> "E1"]

\* C13: every invocation of a registered handler gets exactly one call of
\* done, whatever the handler does: once the handler has run and no thenable
\* it returned is still pending, done has been called exactly once.
C13_DoneCalledExactlyOnce ==
    \A i \in 1..Len(invs) :
        invs[i].then # "pending" => Len(invs[i].done) = 1

----------------------------------------------------------------------------
(* Properties of SenecaEntityWrapper *)

\* the step issues a new call of prop
IsCall(prop) == ecall'.id # ecall.id /\ ecall'.prop = prop /\ ecall'.called

DataNames(f) == {k \in DOMAIN f : k \notin {"x$"}}
PublicNames(f) == {k \in DOMAIN f : k \notin {"x$", "_p"}}

\* C5: when save$() without argument calls the delegate's save, the record's
\* data fields (names not ending in '$') are exactly the wrapper's fields
\* whose names neither end in '$' nor start with '_', with the wrapper's
\* values, and the delegate's save gets the continuation as its only argument.
C5_SaveSynchronisesBeforeSave ==
    [][IsCall("save$") /\ ecall'.args = <<>> =>
          /\ DataNames(ent') = PublicNames(wrapper.fields)
          /\ \A k \in DataNames(ent') : ent'[k] = wrapper.fields[k]
          /\ ecall'.dargs = <<>>]_vars

\* save$() pending on a record that lost '_p' and took id from the wrapper
C5_Witness ==
    /\ ecall.prop = "save$" /\ ecall.args = <<>> /\ ecall.called /\ ecall.n = 0
    /\ ~ecall.mirror
    /\ wrapper.fields = [k \in {"id", "x$"} |-> IF k = "id" THEN 2 ELSE 1]
    /\ ent = [k \in {"id"} |-> 2]

\* C6 as stated: wrapping a record, copying its fields onto the wrapper and
\* calling save$() persists a record whose data fields equal the wrapper's
\* fields before the save, fields starting with '_' included.
C6_RoundTripKeepsAllFields ==
    [][IsCall("save$") /\ ecall'.args = <<>> /\ ecall'.mirror =>
          Restrict(ent', DataNames(ent')) = wrapper.fields]_vars

\* C6 amended: the persisted data fields equal the wrapper's pre-save fields
\* whose names do not start with '_'; the record's '_' fields are removed.
C6_RoundTripKeepsPublicFields ==
    [][IsCall("save$") /\ ecall'.args = <<>> /\ ecall'.mirror =>
          Restrict(ent', DataNames(ent')) =
              Restrict(wrapper.fields, PublicNames(wrapper.fields))]_vars

\* save$() pending after a round trip of a record with id and '_p'
C6_Witness ==
    /\ ecall.prop = "save$" /\ ecall.args = <<>> /\ ecall.called /\ ecall.n = 0
    /\ ecall.mirror
    /\ wrapper.fields = [k \in {"id", "_p"} |-> 1]
    /\ ent = [k \in {"id", "x$"} |-> 1]

\* C7: save$(overrideFields) hands exactly overrideFields to the delegate's
\* save and changes neither the wrapper's fields nor the record's fields.
C7_SaveWithOverrideForwards ==
    [][IsCall("save$") /\ Len(ecall'.args) > 0 =>
          /\ ecall'.dargs = ecall'.args
          /\ ent' = ent
          /\ wrapper' = wrapper]_vars

\* save$(obj) pending with the record and the wrapper still different
C7_Witness ==
    /\ ecall.prop = "save$" /\ ecall.args = <<[id |-> 2]>> /\ ecall.called
    /\ ecall.dargs = <<[id |-> 2]>>
    /\ ent = [k \in {"id", "_p"} |-> 1]
    /\ wrapper.fields = [k \in {"_p"} |-> 1]

\* C8: a reserved accessor calls the record's accessor of the same name with
\* the same arguments and returns what it returned.
C8_AccessorReturnsDelegateResult ==
    acc.called =>
        /\ acc.dkey = acc.key
        /\ acc.dargs = acc.args
        /\ acc.ret = acc.dret

\* C9: remove$ resolves with no value when the delegate's continuation
\* reports success, whatever its second argument, and rejects with the
\* delegate's error otherwise.
C9_RemoveResolvesWithNoValue ==
    ecall.prop = "remove$" /\ ecall.n > 0 =>
        IF Truthy(ecall.err)
        THEN ecall.p = [st |-> "rejected", val |-> PlainVal(ecall.err)]
        ELSE ecall.p = [st |-> "resolved", val |-> PlainVal(Undefined)]

\* C10: load$ resolves with a new wrapper around the record the delegate
\* delivers, and with the delegate's own empty value (not a wrapper) when the
\* delegate reports success without a record.
C10_LoadNotFoundPassesThrough ==
    ecall.prop = "load$" /\ ecall.n > 0 /\ ~Truthy(ecall.err) =>
        /\ ecall.p.st = "resolved"
        /\ IF ecall.rec = "R"
           THEN ecall.p.val.t = "wrapper" /\ ecall.p.val.entity = "R"
           ELSE ecall.p.val = PlainVal(ecall.rec)

\* C14 as stated: load$ and list$, with or without a query, leave the record's
\* data fields as they were when the delegate operation is called, and leave
\* the wrapper's fields unchanged.
C14_LoadAndListReadOnly ==
    [][IsCall("load$") \/ IsCall("list$") =>
          /\ Restrict(ent', DataNames(ent')) = Restrict(ent, DataNames(ent))
          /\ wrapper' = wrapper]_vars

\* C14 amended: with a query the record and the wrapper are unchanged when
\* the delegate operation is called; without a query the wrapper is unchanged
\* and the record's data fields have been replaced by the wrapper's fields
\* whose names neither end in '$' nor start with '_'.
C14_LoadAndListSyncWithoutQuery ==
    [][IsCall("load$") \/ IsCall("list$") =>
          /\ wrapper' = wrapper
          /\ ecall'.dargs = ecall'.args
          /\ Len(ecall'.args) > 0 => ent' = ent
          /\ Len(ecall'.args) = 0 =>
                Restrict(ent', DataNames(ent')) =
                    Restrict(wrapper.fields, PublicNames(wrapper.fields))]_vars

\* load$() pending: the record lost '_p' and took the wrapper's id
C14_Witness ==
    /\ ecall.prop = "load$" /\ ecall.args = <<>> /\ ecall.called /\ ecall.n = 0
    /\ ~ecall.mirror
    /\ wrapper.fields = [k \in {"id"} |-> 2]
    /\ ent = [k \in {"id", "x$"} |-> IF k = "id" THEN 2 ELSE 1]

====
